---------------------------- MODULE Spec2Model ----------------------------
(***************************************************************************)
(* A model of the debounced file watcher of watcher.go.                    *)
(*                                                                         *)
(* Goroutines: the debounce loop (debounceLoop), one event handler per raw *)
(* event (go w.handleEvent(event)), one debounce worker per hot path       *)
(* (go w.debounceFile(event, ch)), the callers of Close, and the consumer  *)
(* of the two output channels.  All channels of the program are            *)
(* unbuffered, so a send and its receive are one step (a rendezvous); a    *)
(* goroutine blocked in a send or in Lock() is a goroutine whose next      *)
(* action is not enabled.  Time is abstracted: the timer of a worker's     *)
(* select may fire whenever the worker is in that select.                  *)
(***************************************************************************)
EXTENDS Naturals, Sequences, FiniteSets

(* ------------------------------ bounds -------------------------------- *)

\* raw events the source delivers
MaxEvents == 3
\* errors the source delivers
MaxErrors == 1
\* calls of Close
MaxCloses == 2
\* stimuli of the environment altogether (raw events, errors, Close calls)
MaxStimuli == 3

(* --------------------------- event values ------------------------------ *)

Create == "CREATE"
Write  == "WRITE"
Remove == "REMOVE"
Rename == "RENAME"
Chmod  == "CHMOD"

\* event.Op&fsnotify.X == fsnotify.X : Op is a bit set
HasOp(op, bit) == bit \in op

\* watched file names
Paths == {"p", "q"}

\* the operations the source reports on the file "p", which is created,
\* removed, renamed and changed: four single operations, and a combined
\* one (a bit set with more than one bit, as kqueue reports them)
InputOps ==
    { {Create}, {Remove}, {Rename}, {Chmod}, {Write, Rename} }

\* the raw events the source reports: those operations on "p", and
\* writes on a second file "q"
SourceEvents ==
    { [Name |-> "p", Op |-> op] : op \in InputOps } \cup { [Name |-> "q", Op |-> {Write}] }

\* the errors the source reports
ErrValues == {"e1", "e2"}

\* goroutine ids: handler h handles the h-th raw event; the worker and the
\* channel created by handler h have the id h; 0 is "no channel"
Ids == 1..MaxEvents
NoCh == 0
Closers == 1..MaxCloses

NoEvent == [id |-> 0, Name |-> "", Op |-> {}]

(* ------------------------------- state --------------------------------- *)

VARIABLES
    IgnoreTemporaryFiles, \* Watcher.IgnoreTemporaryFiles
    accepted,     \* raw events received by debounceLoop, in order
    srcErrors,    \* errors received by debounceLoop from the source, in order
    loopPc,       \* debounceLoop: "select" | "sendErr" | "done"
    loopErr,      \* the err of debounceLoop while it sends it on w.Errors
    hpc,          \* handleEvent of event h: "none" | "start" | "cw_send" |
                  \*   "o_send" | "o_emit" | "done"
    hch,          \* the ch a handler looked up in debounceMap
    hlate,        \* history: at the lookup of the Create/Write branch a
                  \*   worker of the file had already left its select by
                  \*   the timer or for good
    wpc,          \* debounceFile of worker w: "none" | "select" | "rm_lock" |
                  \*   "rm_emit" | "rn_lock" | "t_lock" | "t_emit" | "done"
    wevent,       \* the worker's local  event
    wnew,         \* the worker's local  newEvent
    wrecv,        \* history: ids of the events worker w received on ch
    wtimer,       \* history: number of time.After timers worker w armed
    debounceMap,  \* Watcher.debounceMap: name -> channel (NoCh: no entry)
    debounceMapMu,\* Watcher.debounceMapMu: 0 free, h held by handler h
    Events,       \* values the consumer received from w.Events, in order
    Errors,       \* values the consumer received from w.Errors, in order
    isClosed,     \* Watcher.isClosed
    closeMu,      \* Watcher.closeMu: 0 free, c held by Close call c
    closeCh,      \* number of close(w.closeCh) executed (2 would panic)
    cpc,          \* Close call c: "idle" | "locked" | "closing" | "unlock" |
                  \*   "watcher" | "done"
    watcherClosed \* w.watcher.Close() was called

vars == << IgnoreTemporaryFiles, accepted, srcErrors, loopPc, loopErr, hpc, hch,
           hlate, wpc, wevent, wnew, wrecv, wtimer, debounceMap, debounceMapMu,
           Events, Errors, isClosed, closeMu, closeCh, cpc, watcherClosed >>

loopVars   == << loopPc, loopErr >>
handlerVars == << hpc, hch, hlate >>
workerVars == << wpc, wevent, wnew, wrecv, wtimer >>
closeVars  == << isClosed, closeMu, closeCh, cpc, watcherClosed >>

\* NewWatcher: empty map, open channels, IgnoreTemporaryFiles true by
\* default; the field is public, the caller may set it before use
Init ==
    /\ IgnoreTemporaryFiles \in BOOLEAN
    /\ accepted = << >>
    /\ srcErrors = << >>
    /\ loopPc = "select"
    /\ loopErr = ""
    /\ hpc = [h \in Ids |-> "none"]
    /\ hch = [h \in Ids |-> NoCh]
    /\ hlate = [h \in Ids |-> FALSE]
    /\ wpc = [w \in Ids |-> "none"]
    /\ wevent = [w \in Ids |-> NoEvent]
    /\ wnew = [w \in Ids |-> NoEvent]
    /\ wrecv = [w \in Ids |-> << >>]
    /\ wtimer = [w \in Ids |-> 0]
    /\ debounceMap = [p \in Paths |-> NoCh]
    /\ debounceMapMu = 0
    /\ Events = << >>
    /\ Errors = << >>
    /\ isClosed = FALSE
    /\ closeMu = 0
    /\ closeCh = 0
    /\ cpc = [c \in Closers |-> "idle"]
    /\ watcherClosed = FALSE

\* stimuli the environment has given so far
Stimuli ==
    Len(accepted) + Len(srcErrors) + Cardinality({c \in Closers : cpc[c] # "idle"})

(* ------------------------------ Close ---------------------------------- *)

\* w.closeMu.Lock()
CloseLock(c) ==
    /\ cpc[c] = "idle"
    /\ \A d \in Closers : d < c => cpc[d] # "idle"
    /\ Stimuli < MaxStimuli
    /\ closeMu = 0
    /\ closeMu' = c
    /\ cpc' = [cpc EXCEPT ![c] = "locked"]
    /\ UNCHANGED << IgnoreTemporaryFiles, accepted, srcErrors, loopVars,
                    handlerVars, workerVars, debounceMap, debounceMapMu,
                    Events, Errors, isClosed, closeCh, watcherClosed >>

\* (mutant) Close without the isClosed test
CloseCheckAlways(c) ==
    /\ cpc[c] = "locked"
    /\ cpc' = [cpc EXCEPT ![c] = "closing"]
    /\ UNCHANGED << IgnoreTemporaryFiles, accepted, srcErrors, loopVars,
                    handlerVars, workerVars, debounceMap, debounceMapMu,
                    Events, Errors, isClosed, closeMu, closeCh, watcherClosed >>

\* if !w.isClosed
CloseCheck(c) ==
    /\ cpc[c] = "locked"
    /\ cpc' = [cpc EXCEPT ![c] = IF ~isClosed THEN "closing" ELSE "unlock"]
    /\ UNCHANGED << IgnoreTemporaryFiles, accepted, srcErrors, loopVars,
                    handlerVars, workerVars, debounceMap, debounceMapMu,
                    Events, Errors, isClosed, closeMu, closeCh, watcherClosed >>

\* (mutant) Close marks the watcher closed but does not close closeCh
CloseSignalNoChannel(c) ==
    /\ cpc[c] = "closing"
    /\ isClosed' = TRUE
    /\ cpc' = [cpc EXCEPT ![c] = "unlock"]
    /\ UNCHANGED << IgnoreTemporaryFiles, accepted, srcErrors, loopVars,
                    handlerVars, workerVars, debounceMap, debounceMapMu,
                    Events, Errors, closeMu, closeCh, watcherClosed >>

\* close(w.closeCh); w.isClosed = true
CloseSignal(c) ==
    /\ cpc[c] = "closing"
    /\ closeCh' = closeCh + 1
    /\ isClosed' = TRUE
    /\ cpc' = [cpc EXCEPT ![c] = "unlock"]
    /\ UNCHANGED << IgnoreTemporaryFiles, accepted, srcErrors, loopVars,
                    handlerVars, workerVars, debounceMap, debounceMapMu,
                    Events, Errors, closeMu, watcherClosed >>

\* w.closeMu.Unlock()
CloseUnlock(c) ==
    /\ cpc[c] = "unlock"
    /\ closeMu' = 0
    /\ cpc' = [cpc EXCEPT ![c] = "watcher"]
    /\ UNCHANGED << IgnoreTemporaryFiles, accepted, srcErrors, loopVars,
                    handlerVars, workerVars, debounceMap, debounceMapMu,
                    Events, Errors, isClosed, closeCh, watcherClosed >>

\* return w.watcher.Close()
CloseWatcher(c) ==
    /\ cpc[c] = "watcher"
    /\ watcherClosed' = TRUE
    /\ cpc' = [cpc EXCEPT ![c] = "done"]
    /\ UNCHANGED << IgnoreTemporaryFiles, accepted, srcErrors, loopVars,
                    handlerVars, workerVars, debounceMap, debounceMapMu,
                    Events, Errors, isClosed, closeMu, closeCh >>

(* --------------------------- debounceLoop ------------------------------ *)

\* case <-w.closeCh: return
LoopQuit ==
    /\ loopPc = "select"
    /\ closeCh > 0
    /\ loopPc' = "done"
    /\ UNCHANGED << IgnoreTemporaryFiles, accepted, srcErrors, loopErr,
                    handlerVars, workerVars, debounceMap, debounceMapMu,
                    Events, Errors, closeVars >>

\* (mutant) the loop takes a raw event while it stands in  w.Errors <- err
DispatchEventWhileSending(e) ==
    /\ loopPc \in {"select", "sendErr"}
    /\ ~watcherClosed
    /\ Len(accepted) < MaxEvents
    /\ Stimuli < MaxStimuli
    /\ LET h == Len(accepted) + 1 IN
        /\ accepted' = Append(accepted, [id |-> h, Name |-> e.Name, Op |-> e.Op])
        /\ hpc' = [hpc EXCEPT ![h] = "start"]
    /\ UNCHANGED << IgnoreTemporaryFiles, srcErrors, loopVars, hch, hlate,
                    workerVars, debounceMap, debounceMapMu, Events, Errors,
                    closeVars >>

\* case event := <-w.watcher.Events: go w.handleEvent(event)
DispatchEvent(e) ==
    /\ loopPc = "select"
    /\ ~watcherClosed
    /\ Len(accepted) < MaxEvents
    /\ Stimuli < MaxStimuli
    /\ LET h == Len(accepted) + 1 IN
        /\ accepted' = Append(accepted, [id |-> h, Name |-> e.Name, Op |-> e.Op])
        /\ hpc' = [hpc EXCEPT ![h] = "start"]
    /\ UNCHANGED << IgnoreTemporaryFiles, srcErrors, loopVars, hch, hlate,
                    workerVars, debounceMap, debounceMapMu, Events, Errors,
                    closeVars >>

\* case err := <-w.watcher.Errors:  (the loop now stands in w.Errors <- err)
DispatchError(e) ==
    /\ loopPc = "select"
    /\ ~watcherClosed
    /\ Len(srcErrors) < MaxErrors
    /\ Stimuli < MaxStimuli
    /\ srcErrors' = Append(srcErrors, e)
    /\ loopErr' = e
    /\ loopPc' = "sendErr"
    /\ UNCHANGED << IgnoreTemporaryFiles, accepted, handlerVars, workerVars,
                    debounceMap, debounceMapMu, Events, Errors, closeVars >>

\* w.Errors <- err, taken by the consumer
DeliverError ==
    /\ loopPc = "sendErr"
    /\ Errors' = Append(Errors, loopErr)
    /\ loopErr' = ""
    /\ loopPc' = "select"
    /\ UNCHANGED << IgnoreTemporaryFiles, accepted, srcErrors, handlerVars,
                    workerVars, debounceMap, debounceMapMu, Events, closeVars >>

(* --------------------------- handleEvent ------------------------------- *)

\* history only: some worker of file p has taken the timer case of its
\* select, or has returned
TimerGone(p) ==
    \E w \in Ids : /\ wevent[w].Name = p
                    /\ wpc[w] \in {"t_lock", "t_emit", "rm_lock", "rm_emit", "done"}

\* event.Op&fsnotify.Write == fsnotify.Write || event.Op&fsnotify.Create == fsnotify.Create
IsCreateWrite(ev) == HasOp(ev.Op, Write) \/ HasOp(ev.Op, Create)

\* the Create/Write branch: Lock; look the name up; not found: insert a new
\* channel, start the worker, Unlock; found: stand in  ch <- event  with
\* the lock held
HandleCreateWrite(h) ==
    /\ hpc[h] = "start"
    /\ IsCreateWrite(accepted[h])
    /\ debounceMapMu = 0
    /\ hlate' = [hlate EXCEPT ![h] = TimerGone(accepted[h].Name)]
    /\ LET event == accepted[h] IN
        IF debounceMap[event.Name] = NoCh
        THEN /\ debounceMap' = [debounceMap EXCEPT ![event.Name] = h]
             /\ wpc' = [wpc EXCEPT ![h] = "select"]
             /\ wevent' = [wevent EXCEPT ![h] = event]
             /\ wtimer' = [wtimer EXCEPT ![h] = 1]
             /\ hpc' = [hpc EXCEPT ![h] = "done"]
             /\ UNCHANGED << hch, debounceMapMu, wnew, wrecv >>
        ELSE /\ hch' = [hch EXCEPT ![h] = debounceMap[event.Name]]
             /\ hpc' = [hpc EXCEPT ![h] = "cw_send"]
             /\ debounceMapMu' = h
             /\ UNCHANGED << debounceMap, workerVars >>
    /\ UNCHANGED << IgnoreTemporaryFiles, accepted, srcErrors, loopVars,
                    Events, Errors, closeVars >>

\* (mutant) an event of any operation that finds no entry starts a worker
HandleOtherStartsWorker(h) ==
    /\ hpc[h] = "start"
    /\ ~IsCreateWrite(accepted[h])
    /\ debounceMapMu = 0
    /\ LET ch == debounceMap[accepted[h].Name] IN
        IF ch # NoCh
        THEN /\ hch' = [hch EXCEPT ![h] = ch]
             /\ hpc' = [hpc EXCEPT ![h] = "o_send"]
             /\ UNCHANGED << workerVars, debounceMap >>
        ELSE /\ debounceMap' = [debounceMap EXCEPT ![accepted[h].Name] = h]
             /\ wpc' = [wpc EXCEPT ![h] = "select"]
             /\ wevent' = [wevent EXCEPT ![h] = accepted[h]]
             /\ wtimer' = [wtimer EXCEPT ![h] = 1]
             /\ hpc' = [hpc EXCEPT ![h] = "done"]
             /\ UNCHANGED << hch, wnew, wrecv >>
    /\ UNCHANGED << IgnoreTemporaryFiles, accepted, srcErrors, loopVars, hlate,
                    debounceMapMu, Events, Errors, closeVars >>

\* the other branch: Lock; look the name up; Unlock; then send on ch or on
\* w.Events
HandleOther(h) ==
    /\ hpc[h] = "start"
    /\ ~IsCreateWrite(accepted[h])
    /\ debounceMapMu = 0
    /\ LET ch == debounceMap[accepted[h].Name] IN
        /\ hch' = [hch EXCEPT ![h] = ch]
        /\ hpc' = [hpc EXCEPT ![h] = IF ch # NoCh THEN "o_send" ELSE "o_emit"]
    /\ UNCHANGED << IgnoreTemporaryFiles, accepted, srcErrors, loopVars, hlate,
                    workerVars, debounceMap, debounceMapMu, Events, Errors,
                    closeVars >>

\* w.Events <- event  of the other branch, taken by the consumer
EmitDirect(h) ==
    /\ hpc[h] = "o_emit"
    /\ Events' = Append(Events, [ev |-> accepted[h], by |-> "direct", g |-> h])
    /\ hpc' = [hpc EXCEPT ![h] = "done"]
    /\ UNCHANGED << IgnoreTemporaryFiles, accepted, srcErrors, loopVars, hch,
                    hlate, workerVars, debounceMap, debounceMapMu, Errors,
                    closeVars >>

(* --------------------------- debounceFile ------------------------------ *)

\* where the worker goes after  newEvent := <-ch : the tests are on the
\* buffered event, not on newEvent
AfterReceive(event) ==
    IF HasOp(event.Op, Remove) THEN "rm_lock"
    ELSE IF HasOp(event.Op, Rename) THEN "rn_lock"
    ELSE "select"

\* (mutant) a received Rename event ends the worker: it deletes its entry
\* and returns
ForwardRenameTerminates(h) ==
    /\ hpc[h] \in {"cw_send", "o_send"}
    /\ LET w == hch[h]
           next == IF HasOp(accepted[h].Op, Rename) THEN "rm_lock"
                   ELSE AfterReceive(wevent[w]) IN
        /\ wpc[w] = "select"
        /\ wnew' = [wnew EXCEPT ![w] = accepted[h]]
        /\ wrecv' = [wrecv EXCEPT ![w] = Append(@, h)]
        /\ wpc' = [wpc EXCEPT ![w] = next]
        /\ wtimer' = [wtimer EXCEPT ![w] = IF next = "select" THEN @ + 1 ELSE @]
    /\ debounceMapMu' = IF hpc[h] = "cw_send" THEN 0 ELSE debounceMapMu
    /\ hpc' = [hpc EXCEPT ![h] = "done"]
    /\ UNCHANGED << IgnoreTemporaryFiles, accepted, srcErrors, loopVars, hch,
                    hlate, wevent, debounceMap, Events, Errors, closeVars >>

\* (mutant) only a received Create/Write event arms a new timer
ForwardKeepTimer(h) ==
    /\ hpc[h] \in {"cw_send", "o_send"}
    /\ LET w == hch[h]
           next == AfterReceive(wevent[w]) IN
        /\ wpc[w] = "select"
        /\ wnew' = [wnew EXCEPT ![w] = accepted[h]]
        /\ wrecv' = [wrecv EXCEPT ![w] = Append(@, h)]
        /\ wpc' = [wpc EXCEPT ![w] = next]
        /\ wtimer' = [wtimer EXCEPT ![w] =
                        IF next = "select" /\ IsCreateWrite(accepted[h])
                        THEN @ + 1 ELSE @]
    /\ debounceMapMu' = IF hpc[h] = "cw_send" THEN 0 ELSE debounceMapMu
    /\ hpc' = [hpc EXCEPT ![h] = "done"]
    /\ UNCHANGED << IgnoreTemporaryFiles, accepted, srcErrors, loopVars, hch,
                    hlate, wevent, debounceMap, Events, Errors, closeVars >>

\* (mutant) a received Create/Write event becomes the buffered event
ForwardLatestWins(h) ==
    /\ hpc[h] \in {"cw_send", "o_send"}
    /\ LET w == hch[h]
           next == AfterReceive(wevent[w]) IN
        /\ wpc[w] = "select"
        /\ wnew' = [wnew EXCEPT ![w] = accepted[h]]
        /\ wrecv' = [wrecv EXCEPT ![w] = Append(@, h)]
        /\ wpc' = [wpc EXCEPT ![w] = next]
        /\ wtimer' = [wtimer EXCEPT ![w] = IF next = "select" THEN @ + 1 ELSE @]
        /\ wevent' = [wevent EXCEPT ![w] =
                        IF IsCreateWrite(accepted[h]) THEN accepted[h] ELSE @]
    /\ debounceMapMu' = IF hpc[h] = "cw_send" THEN 0 ELSE debounceMapMu
    /\ hpc' = [hpc EXCEPT ![h] = "done"]
    /\ UNCHANGED << IgnoreTemporaryFiles, accepted, srcErrors, loopVars, hch,
                    hlate, debounceMap, Events, Errors, closeVars >>

\* ch <- event  of a handler meets  case newEvent := <-ch  of the worker
\* that owns ch; the Create/Write branch then unlocks the map
Forward(h) ==
    /\ hpc[h] \in {"cw_send", "o_send"}
    /\ LET w == hch[h]
           next == AfterReceive(wevent[w]) IN
        /\ wpc[w] = "select"
        /\ wnew' = [wnew EXCEPT ![w] = accepted[h]]
        /\ wrecv' = [wrecv EXCEPT ![w] = Append(@, h)]
        /\ wpc' = [wpc EXCEPT ![w] = next]
        /\ wtimer' = [wtimer EXCEPT ![w] = IF next = "select" THEN @ + 1 ELSE @]
    /\ debounceMapMu' = IF hpc[h] = "cw_send" THEN 0 ELSE debounceMapMu
    /\ hpc' = [hpc EXCEPT ![h] = "done"]
    /\ UNCHANGED << IgnoreTemporaryFiles, accepted, srcErrors, loopVars, hch,
                    hlate, wevent, debounceMap, Events, Errors, closeVars >>

\* the Remove branch: Lock; delete(w.debounceMap, event.Name); Unlock
WorkerRemove(w) ==
    /\ wpc[w] = "rm_lock"
    /\ debounceMapMu = 0
    /\ debounceMap' = [debounceMap EXCEPT ![wevent[w].Name] = NoCh]
    /\ wpc' = [wpc EXCEPT ![w] = IF ~IgnoreTemporaryFiles THEN "rm_emit" ELSE "done"]
    /\ UNCHANGED << IgnoreTemporaryFiles, accepted, srcErrors, loopVars,
                    handlerVars, wevent, wnew, wrecv, wtimer, debounceMapMu,
                    Events, Errors, closeVars >>

\* w.Events <- newEvent; return
EmitRemove(w) ==
    /\ wpc[w] = "rm_emit"
    /\ Events' = Append(Events, [ev |-> wnew[w], by |-> "remove", g |-> w])
    /\ wpc' = [wpc EXCEPT ![w] = "done"]
    /\ UNCHANGED << IgnoreTemporaryFiles, accepted, srcErrors, loopVars,
                    handlerVars, wevent, wnew, wrecv, wtimer, debounceMap,
                    debounceMapMu, Errors, closeVars >>

\* the Rename branch: Lock; delete the old entry; add the new name; keep
\* a CREATE event under the new name or make newEvent the event; Unlock;
\* continue
WorkerRename(w) ==
    /\ wpc[w] = "rn_lock"
    /\ debounceMapMu = 0
    /\ LET event == wevent[w]
           newEvent == wnew[w] IN
        /\ debounceMap' = [[debounceMap EXCEPT ![event.Name] = NoCh]
                              EXCEPT ![newEvent.Name] = w]
        /\ wevent' = [wevent EXCEPT ![w] =
                        IF HasOp(event.Op, Create)
                        THEN [event EXCEPT !.Name = newEvent.Name]
                        ELSE newEvent]
    /\ wpc' = [wpc EXCEPT ![w] = "select"]
    /\ wtimer' = [wtimer EXCEPT ![w] = @ + 1]
    /\ UNCHANGED << IgnoreTemporaryFiles, accepted, srcErrors, loopVars,
                    handlerVars, wnew, wrecv, debounceMapMu, Events, Errors,
                    closeVars >>

\* (mutant) Close cancels the timers of the workers
WorkerTimeoutUnlessClosed(w) ==
    /\ wpc[w] = "select"
    /\ closeCh = 0
    /\ wpc' = [wpc EXCEPT ![w] = "t_lock"]
    /\ UNCHANGED << IgnoreTemporaryFiles, accepted, srcErrors, loopVars,
                    handlerVars, wevent, wnew, wrecv, wtimer, debounceMap,
                    debounceMapMu, Events, Errors, closeVars >>

\* case <-time.After(w.debounceDuration): the timer of the select fires
WorkerTimeout(w) ==
    /\ wpc[w] = "select"
    /\ wpc' = [wpc EXCEPT ![w] = "t_lock"]
    /\ UNCHANGED << IgnoreTemporaryFiles, accepted, srcErrors, loopVars,
                    handlerVars, wevent, wnew, wrecv, wtimer, debounceMap,
                    debounceMapMu, Events, Errors, closeVars >>

\* (mutant) the timer case without the delete
WorkerExpireKeepEntry(w) ==
    /\ wpc[w] = "t_lock"
    /\ debounceMapMu = 0
    /\ wpc' = [wpc EXCEPT ![w] = "t_emit"]
    /\ UNCHANGED << IgnoreTemporaryFiles, accepted, srcErrors, loopVars,
                    handlerVars, wevent, wnew, wrecv, wtimer, debounceMap,
                    debounceMapMu, Events, Errors, closeVars >>

\* Lock; delete(w.debounceMap, event.Name); Unlock
WorkerExpire(w) ==
    /\ wpc[w] = "t_lock"
    /\ debounceMapMu = 0
    /\ debounceMap' = [debounceMap EXCEPT ![wevent[w].Name] = NoCh]
    /\ wpc' = [wpc EXCEPT ![w] = "t_emit"]
    /\ UNCHANGED << IgnoreTemporaryFiles, accepted, srcErrors, loopVars,
                    handlerVars, wevent, wnew, wrecv, wtimer, debounceMapMu,
                    Events, Errors, closeVars >>

\* (mutant) the timer case without the return
EmitSettledNoReturn(w) ==
    /\ wpc[w] = "t_emit"
    /\ Events' = Append(Events, [ev |-> wevent[w], by |-> "timer", g |-> w])
    /\ wpc' = [wpc EXCEPT ![w] = "select"]
    /\ UNCHANGED << IgnoreTemporaryFiles, accepted, srcErrors, loopVars,
                    handlerVars, wevent, wnew, wrecv, wtimer, debounceMap,
                    debounceMapMu, Errors, closeVars >>

\* w.Events <- event; return
EmitSettled(w) ==
    /\ wpc[w] = "t_emit"
    /\ Events' = Append(Events, [ev |-> wevent[w], by |-> "timer", g |-> w])
    /\ wpc' = [wpc EXCEPT ![w] = "done"]
    /\ UNCHANGED << IgnoreTemporaryFiles, accepted, srcErrors, loopVars,
                    handlerVars, wevent, wnew, wrecv, wtimer, debounceMap,
                    debounceMapMu, Errors, closeVars >>

(* ---------------------------- the system ------------------------------- *)

Next ==
    \/ \E c \in Closers : CloseLock(c)
    \/ \E c \in Closers : CloseCheck(c)
    \/ \E c \in Closers : CloseSignal(c)
    \/ \E c \in Closers : CloseUnlock(c)
    \/ \E c \in Closers : CloseWatcher(c)
    \/ LoopQuit
    \/ \E e \in SourceEvents : DispatchEvent(e)
    \/ \E e \in ErrValues : DispatchError(e)
    \/ DeliverError
    \/ \E h \in Ids : HandleCreateWrite(h)
    \/ \E h \in Ids : HandleOther(h)
    \/ \E h \in Ids : EmitDirect(h)
    \/ \E h \in Ids : Forward(h)
    \/ \E w \in Ids : WorkerRemove(w)
    \/ \E w \in Ids : EmitRemove(w)
    \/ \E w \in Ids : WorkerRename(w)
    \/ \E w \in Ids : WorkerTimeout(w)
    \/ \E w \in Ids : WorkerExpire(w)
    \/ \E w \in Ids : EmitSettled(w)

Spec == Init /\ [][Next]_vars

\* the goroutine of debounceLoop gets to run: once closeCh is closed its
\* select takes that case sooner or later; and the user of the watcher
\* keeps receiving from Errors
FairSpec == Spec /\ WF_vars(LoopQuit) /\ WF_vars(DeliverError)

(* ----------------------- what the claims speak of ---------------------- *)

\* a step of the program or of the consumer (every action but the three
\* by which the environment gives a new raw event, a new error or a new
\* call of Close)
ProgramStep ==
    \/ \E c \in Closers : CloseCheck(c) \/ CloseSignal(c) \/ CloseUnlock(c) \/ CloseWatcher(c)
    \/ LoopQuit
    \/ DeliverError
    \/ \E h \in Ids : HandleCreateWrite(h) \/ HandleOther(h) \/ EmitDirect(h) \/ Forward(h)
    \/ \E w \in Ids : \/ WorkerRemove(w) \/ EmitRemove(w) \/ WorkerRename(w)
                      \/ WorkerTimeout(w) \/ WorkerExpire(w) \/ EmitSettled(w)

\* nothing is left to do with the raw events given so far: every goroutine
\* has returned or is blocked for good, and the consumer has taken every
\* value offered to it
Quiescent == ~ENABLED ProgramStep

\* the raw events of file p, in the order debounceLoop received them
RawOf(p) == SelectSeq(accepted, LAMBDA e : e.Name = p)

\* the positions of Events that hold an event of file p
EmittedOf(p) == { k \in DOMAIN Events : Events[k].ev.Name = p }

\* the positions of Events that worker w sent
SentBy(w) == { k \in DOMAIN Events : Events[k].g = w /\ Events[k].by # "direct" }

\* every raw event of p so far is a plain Create or Write, and each was
\* looked up by its handler while no worker of p had left its select by
\* the timer: they all belong to one debounce window
OneWindow(p) ==
    /\ RawOf(p) # << >>
    /\ \A k \in DOMAIN RawOf(p) :
          /\ RawOf(p)[k].Op \in {{Create}, {Write}}
          /\ hpc[RawOf(p)[k].id] # "start"
          /\ ~hlate[RawOf(p)[k].id]

\* the raw events of p so far are a plain Create and then a plain Remove,
\* and the worker the Create started received the Remove from its channel
\* (while it was in its select, its timer not fired)
CreateThenRemove(p) ==
    /\ Len(RawOf(p)) = 2
    /\ RawOf(p)[1].Op = {Create}
    /\ RawOf(p)[2].Op = {Remove}
    /\ wpc[RawOf(p)[1].id] # "none"
    /\ wrecv[RawOf(p)[1].id] = << RawOf(p)[2].id >>

(* ------------------------------ claims --------------------------------- *)

\* C1 (as claimed): when N >= 1 Create/Write events of a file p all fall
\* into one debounce window, at most one event of p is emitted, it is
\* emitted by the timer case of a worker that has received the other N-1
\* events, and once nothing is left to do exactly one has been emitted.
C1_Coalescing ==
    \A p \in Paths :
        OneWindow(p) =>
            /\ Cardinality(EmittedOf(p)) <= 1
            /\ \A k \in EmittedOf(p) :
                  /\ Events[k].by = "timer"
                  /\ Len(wrecv[Events[k].g]) = Len(RawOf(p)) - 1
            /\ Quiescent => Cardinality(EmittedOf(p)) = 1

\* C2 (as claimed): with IgnoreTemporaryFiles set, Create(p) then
\* Remove(p), the Remove received by the pending worker, leaves no event
\* of p on Events.
C2_TransientSuppressed ==
    \A p \in Paths :
        (IgnoreTemporaryFiles /\ CreateThenRemove(p)) => EmittedOf(p) = {}

\* C3 (as claimed): with IgnoreTemporaryFiles not set, Create(p) then
\* Remove(p), the Remove received by the pending worker: every event of p
\* on Events is that Remove, sent by the worker on receipt (not by the
\* timer case), there is at most one, and exactly one once nothing is left
\* to do.
C3_TransientPassthrough ==
    \A p \in Paths :
        (~IgnoreTemporaryFiles /\ CreateThenRemove(p)) =>
            /\ Cardinality(EmittedOf(p)) <= 1
            /\ \A k \in EmittedOf(p) :
                  /\ Events[k].ev.id = RawOf(p)[2].id
                  /\ Events[k].by = "remove"
            /\ Quiescent => Cardinality(EmittedOf(p)) = 1

\* the ids of a sequence grow from left to right
Increasing(ids) == \A i, j \in DOMAIN ids : i < j => ids[i] < ids[j]

\* C4 (as claimed): the events of one file are seen by its worker, and
\* are emitted on Events, in the order debounceLoop received them: a worker
\* holds the earliest event it has seen, receives the others in the order
\* of their arrival, and of two events of one file on Events the one that
\* arrived first comes first.
C4_PerPathOrder ==
    /\ \A w \in Ids : Increasing(<< w >> \o wrecv[w])
    /\ \A k, l \in DOMAIN Events :
          (k < l /\ Events[k].ev.Name = Events[l].ev.Name)
              => Events[k].ev.id < Events[l].ev.id

\* C5 (as claimed): a worker whose timer has fired is never kept from its
\* emission by another file: it does not stand before a table lock that
\* the handler of an event of another file holds while that handler's send
\* has no receiver.
C5_PerPathIsolation ==
    \A w \in Ids :
        wpc[w] = "t_lock" =>
            ~ \E h \in Ids : /\ debounceMapMu = h
                              /\ accepted[h].Name # wevent[w].Name
                              /\ wpc[hch[h]] # "select"

\* C6: no entry of debounceMap is left by a worker that has reached its
\* outcome: every channel in the map belongs to a worker that has not yet
\* deleted its entry, so a worker that emits (and one that has returned) has
\* no entry, and the next Create of its file starts a new worker.
C6_TableCleanup ==
    \A p \in Paths :
        debounceMap[p] # NoCh =>
            wpc[debounceMap[p]] \in {"select", "rm_lock", "rn_lock", "t_lock"}

\* C6's case: a worker has emitted and returned, and a later Create/Write
\* of the same file has started a new worker, which owns the entry.
C6_Witness ==
    \E w, v \in Ids :
        /\ wpc[w] = "done" /\ SentBy(w) # {}
        /\ v # w /\ wpc[v] = "select"
        /\ wevent[v].Name = wevent[w].Name
        /\ debounceMap[wevent[w].Name] = v

\* C7: a worker sends at most once on Events.
C7_AtMostOneSend == \A w \in Ids : Cardinality(SentBy(w)) <= 1

\* C7's case: a worker that received two events has sent one and returned.
C7_Witness ==
    \E w \in Ids :
        wpc[w] = "done" /\ Len(wrecv[w]) >= 2 /\ Cardinality(SentBy(w)) = 1

\* C8 (as claimed): a single plain Create of a file p, and nothing else on
\* p: at most one event of p is emitted, by the timer case, and once
\* nothing is left to do exactly one has been emitted.
C8_QuietThreshold ==
    \A p \in Paths :
        (Len(RawOf(p)) = 1 /\ RawOf(p)[1].Op = {Create}) =>
            /\ Cardinality(EmittedOf(p)) <= 1
            /\ \A k \in EmittedOf(p) : Events[k].by = "timer"
            /\ Quiescent => Cardinality(EmittedOf(p)) = 1

\* C9: closeCh is closed at most once (a second close would panic), and
\* it is closed, with isClosed set, once any call of Close has left its
\* critical section.
C9_CloseOnce ==
    /\ closeCh <= 1
    /\ \A c \in Closers :
          cpc[c] \in {"unlock", "watcher", "done"} => (closeCh = 1 /\ isClosed)

\* C9's case: two calls of Close have returned.
C9_Witness ==
    \E c, d \in Closers :
        c # d /\ cpc[c] = "done" /\ cpc[d] = "done" /\ closeCh = 1

\* the source has something to give and the bounds let it
SourceCanGive ==
    ~watcherClosed /\ Len(accepted) < MaxEvents /\ Stimuli < MaxStimuli

\* C10 (as claimed): while an error waits to be taken from Errors, the
\* loop still accepts raw events and still reacts to the closed closeCh.
C10_ErrorNeverBlocks ==
    loopPc = "sendErr" =>
        /\ SourceCanGive => ENABLED (\E e \in SourceEvents : DispatchEvent(e))
        /\ closeCh > 0 => ENABLED LoopQuit

\* C10 (amended): the errors taken from Errors are the errors of the
\* source, unchanged and in order; while an error waits to be taken the
\* loop does nothing else: it accepts no raw event and no error and does
\* not return, until the consumer takes the error.
C10_ErrorBlocksLoop ==
    /\ [](/\ Len(Errors) <= Len(srcErrors)
          /\ \A k \in DOMAIN Errors : Errors[k] = srcErrors[k]
          /\ loopPc = "sendErr" => /\ Len(srcErrors) = Len(Errors) + 1
                                   /\ loopErr = srcErrors[Len(srcErrors)])
    /\ [][loopPc = "sendErr" =>
            /\ accepted' = accepted
            /\ srcErrors' = srcErrors
            /\ \/ loopPc' = "sendErr" /\ Errors' = Errors
               \/ loopPc' = "select" /\ Errors' = Append(Errors, loopErr)]_vars

\* C10's case: closeCh is closed while the error still waits, and the
\* loop has not returned.
C10_Witness ==
    loopPc = "sendErr" /\ closeCh = 1 /\ loopErr \in ErrValues

C12_NoCyclicWait ==
    \A h \in Ids :
        (hpc[h] = "cw_send" /\ debounceMapMu = h) =>
            wpc[hch[h]] \notin {"t_lock", "rm_lock", "rn_lock"}

\* C13: lock discipline: no handler is performing, or blocked in, a send on
\* a worker's channel or on Events while it holds the table lock, and no
\* worker is in a send on Events while the lock is held by it.
C13_NoSendUnderLock ==
    /\ \A h \in Ids :
            hpc[h] \in {"cw_send", "o_send", "o_emit"} => debounceMapMu # h
    /\ \A w \in Ids :
            wpc[w] \in {"rm_emit", "t_emit"} => debounceMap[wevent[w].Name] # w

\* the positions of wrecv[w] that hold a Create or Write event
CWReceived(w) ==
    { k \in DOMAIN wrecv[w] : IsCreateWrite(accepted[wrecv[w][k]]) }

\* the last Create or Write event worker w received from its channel
LastCWReceived(w) ==
    accepted[wrecv[w][CHOOSE k \in CWReceived(w) : \A j \in CWReceived(w) : j <= k]]

\* the event that started worker w carries neither Remove nor Rename
PlainStart(w) ==
    /\ wpc[w] # "none"
    /\ ~HasOp(accepted[w].Op, Remove)
    /\ ~HasOp(accepted[w].Op, Rename)

\* C14 (as stated): latest write wins: what a worker that received further
\* Create/Write events emits on timer expiry is the last Create/Write event
\* it received.
C14_LatestWriteWins ==
    \A w \in Ids : \A k \in SentBy(w) :
        (Events[k].by = "timer" /\ CWReceived(w) # {}) =>
            Events[k].ev = LastCWReceived(w)

\* C14 (amended): first event wins: a worker started by an event without
\* the Remove and Rename bits keeps that event as its buffered event
\* whatever Create/Write events it receives, and what it emits on timer
\* expiry is the event that started it.
C14_StartingEventWins ==
    \A w \in Ids :
        (PlainStart(w) /\ CWReceived(w) # {}) =>
            /\ wevent[w] = accepted[w]
            /\ \A k \in SentBy(w) : Events[k].ev = accepted[w]

\* C14's case: a worker received a later Create/Write event, its timer
\* expired and it emitted the event that started it.
C14_Witness ==
    \E w \in Ids :
        /\ PlainStart(w) /\ CWReceived(w) # {} /\ wpc[w] = "done"
        /\ \E k \in SentBy(w) :
              /\ Events[k].by = "timer"
              /\ Events[k].ev = accepted[w]
              /\ Events[k].ev # LastCWReceived(w)

\* an operation that is none of Create, Write, Remove and Rename
Unrecognized(ev) ==
    /\ ~IsCreateWrite(ev)
    /\ ~HasOp(ev.Op, Remove)
    /\ ~HasOp(ev.Op, Rename)

\* the positions of wrecv[w] that hold an event of an unrecognized operation
OtherReceived(w) ==
    { k \in DOMAIN wrecv[w] : Unrecognized(accepted[wrecv[w][k]]) }

\* C15 (as stated): an event of an unrecognized operation received by a
\* pending worker is ignored: a worker that received nothing but such
\* events still holds the event that started it and still runs the timer
\* it armed when it started (the timer is not restarted).
C15_UnrecognizedIgnored ==
    \A w \in Ids :
        (OtherReceived(w) # {} /\ OtherReceived(w) = DOMAIN wrecv[w]) =>
            /\ wevent[w] = accepted[w]
            /\ wtimer[w] = 1

\* C15 (amended): a worker whose buffered event carries neither Remove nor
\* Rename stays pending and keeps its buffered event when it receives an
\* event of an unrecognized operation, but it arms a new timer for every
\* event it receives, an unrecognized one included.
C15_UnrecognizedRestartsTimer ==
    \A w \in Ids :
        (PlainStart(w) /\ OtherReceived(w) # {}) =>
            /\ wevent[w] = accepted[w]
            /\ wpc[w] \in {"select", "t_lock", "t_emit", "done"}
            /\ wtimer[w] = 1 + Len(wrecv[w])

\* C15's case: a pending worker received a Chmod event and is pending
\* again, on its second timer.
C15_Witness ==
    \E w \in Ids :
        /\ PlainStart(w) /\ wpc[w] = "select"
        /\ Len(wrecv[w]) = 1 /\ OtherReceived(w) = {1}
        /\ accepted[wrecv[w][1]].Op = {Chmod}
        /\ wtimer[w] = 2

\* the positions of wrecv[w] that hold an event with the Rename bit
RenameReceived(w) ==
    { k \in DOMAIN wrecv[w] : HasOp(accepted[wrecv[w][k]].Op, Rename) }

\* C16 (as stated): Rename terminates the worker: a worker that received a
\* Rename event is never pending again, never takes its timer and never
\* emits.
C16_RenameTerminates ==
    \A w \in Ids :
        RenameReceived(w) # {} =>
            /\ wpc[w] \notin {"select", "t_lock", "t_emit"}
            /\ SentBy(w) = {}

\* C16 (amended): Rename does not terminate the worker: unless its buffered
\* event carries the Remove bit, a worker that received a Rename event is
\* pending again with its entry in the table (or about to re-add it), or
\* its timer has fired since; and when it has returned it has emitted a
\* settled event on timer expiry.
C16_RenameKeepsWorker ==
    \A w \in Ids :
        (RenameReceived(w) # {} /\ ~HasOp(wevent[w].Op, Remove)) =>
            /\ wpc[w] \in {"select", "rn_lock", "t_lock", "t_emit", "done"}
            /\ wpc[w] \in {"select", "t_lock"} => debounceMap[wevent[w].Name] = w
            /\ wpc[w] = "done" => \E k \in SentBy(w) : Events[k].by = "timer"

\* C16's case: a pending worker received a Rename event, went on, and
\* returned after emitting a settled event on timer expiry.
C16_Witness ==
    \E w \in Ids :
        /\ RenameReceived(w) # {} /\ ~HasOp(wevent[w].Op, Remove)
        /\ wpc[w] = "done"
        /\ \E k \in SentBy(w) : Events[k].by = "timer"

\* C17: table/worker invariant: every channel stored in the table belongs
\* to a live worker that will still receive from it, and every worker that
\* has not yet deleted its entry on its way out is in the table under the
\* name of its buffered event.
C17_TableWorkerInvariant ==
    /\ \A p \in Paths :
            debounceMap[p] # NoCh => wpc[debounceMap[p]] \in {"select", "rn_lock"}
    /\ \A w \in Ids :
            wpc[w] \in {"select", "rn_lock", "rm_lock", "t_lock"} =>
                debounceMap[wevent[w].Name] = w

\* C18: direct passthrough: a handler of an event that is neither Create
\* nor Write and that found no entry for the event's name stands in its
\* send on Events, which needs nothing but the consumer; finding no entry
\* and sending change neither the table nor any worker; and what arrives
\* on Events is the raw event itself, from a handler that started no
\* worker.
C18_DirectPassthrough ==
    /\ [](\A h \in Ids :
            hpc[h] = "o_emit" =>
                /\ hch[h] = NoCh /\ wpc[h] = "none"
                /\ ~IsCreateWrite(accepted[h])
                /\ ENABLED EmitDirect(h))
    /\ [](\A k \in DOMAIN Events :
            Events[k].by = "direct" =>
                /\ Events[k].ev = accepted[Events[k].g]
                /\ ~IsCreateWrite(Events[k].ev)
                /\ wpc[Events[k].g] = "none")
    /\ [][\A h \in Ids :
            (/\ hpc[h] \in {"start", "o_emit"}
             /\ ~IsCreateWrite(accepted[h])
             /\ hpc'[h] # hpc[h]
             /\ hch'[h] = NoCh) =>
                /\ UNCHANGED << workerVars, debounceMap, debounceMapMu >>
                /\ hpc[h] = "start" => hpc'[h] = "o_emit" /\ Events' = Events
                /\ hpc[h] = "o_emit" =>
                      Events' = Append(Events, [ev |-> accepted[h], by |-> "direct", g |-> h])]_vars

\* C18's case: a Remove event whose path had no entry went straight to
\* Events, and its handler has returned.
C18_Witness ==
    \E k \in DOMAIN Events :
        /\ Events[k].by = "direct" /\ Events[k].ev.Op = {Remove}
        /\ hpc[Events[k].g] = "done" /\ hch[Events[k].g] = NoCh

\* C19 (as stated): once Close has signalled shutdown the dispatch loop can
\* terminate from wherever it stands, a send on an undrained Errors
\* included: it has returned or its next step is to return.
C19_LoopStopsAfterClose ==
    isClosed => (loopPc = "done" \/ ENABLED LoopQuit)

\* C19 (amended): with a consumer that keeps receiving from Errors, once
\* Close has signalled shutdown the dispatch loop eventually returns, and
\* from then on it accepts no raw event and no source error.
C19_LoopStopsIfDrained ==
    /\ isClosed ~> (loopPc = "done")
    /\ [][loopPc = "done" => UNCHANGED << accepted, srcErrors, loopVars >>]_vars

\* C19's case: Close was called while the loop stood in its send on
\* Errors; the error was received and the loop has returned.
C19_Witness ==
    /\ isClosed /\ loopPc = "done"
    /\ Errors # << >>
    /\ \E c \in Closers : cpc[c] = "done"

\* C20: no lost raw event: no handler that has released the table lock
\* stands in a send on the channel of a worker that has left its select for
\* good (its timer fired, or it is on its way out by the Remove branch),
\* so that the event would never be received nor emitted.
C20_NoLostEvent ==
    \A h \in Ids :
        hpc[h] = "o_send" =>
            wpc[hch[h]] \notin {"rm_lock", "rm_emit", "t_lock", "t_emit", "done"}

=============================================================================
